---- MODULE Spec2Model ----
(***************************************************************************)
(* Chunked speech-synthesis pipeline of respeechit.                        *)
(*                                                                         *)
(*   DocumentProcessor.splitDocument      src/documentProcessor.ts 2-14    *)
(*   OpenAIClient.generateSpeech          src/documentProcessor.ts 105-245 *)
(*   SpeechGenerator.generateSpeechFromDocument                            *)
(*                                        src/speechGenerator.ts 16-36     *)
(*                                                                         *)
(* One run of generateSpeechFromDocument is modelled together with the     *)
(* generateSpeech call it awaits.  The remote API, the timer and the file  *)
(* system are the environment: the outcome of every axios.post and of      *)
(* every writeFileSync is chosen nondeterministically.                     *)
(***************************************************************************)
EXTENDS Integers, Sequences, FiniteSets, TLC

\* ------------------------------------------------------------------------
\* Bounds of the model
\* ------------------------------------------------------------------------

\* The chunk size the pipeline passes to splitDocument.  The program uses
\* 1000 (speechGenerator.ts:17); the model scales it down so that documents
\* of a few characters already split into several chunks.
ChunkSize == 2

\* Longest document of a run, counted in chunks.
MaxSegments == 2

MaxDocLen == MaxSegments * ChunkSize

\* Longest document of a run under SpecLong, counted in chunks.
LongSegments == 5

LongDocLen == LongSegments * ChunkSize

\* Longest text and largest chunk size given to splitDocument under SpecSplit.
SplitMaxLen == 4

SplitMaxChunk == 3

\* A speed of VoiceOptions is a fraction (0.5 to 2.0): the model counts it in
\* steps of 1 / SpeedUnit, so that the value v stands for v / SpeedUnit.
SpeedUnit == 2

\* The pitches of VoiceOptions range over -MaxPitch .. MaxPitch (the program
\* documents -10 to 10).
MaxPitch == 2

\* Most paths given to combineAudioFiles.
MaxCombine == 3

\* Most requests the server takes under SpecAuth.
MaxRequests == 3

\* ------------------------------------------------------------------------
\* Text: a string is a sequence of characters
\* ------------------------------------------------------------------------

Chars == {"a", " "}

Whitespace == {" "}

\* the end offset taken as inclusive
slice_inclusiveEnd(text, from, to) ==
    LET end == IF to + 1 > Len(text) THEN Len(text) ELSE to + 1
    IN  IF from >= end THEN << >> ELSE SubSeq(text, from + 1, end)

\* every slice taken from the start of the text
slice_fromStart(text, from, to) ==
    LET end == IF to > Len(text) THEN Len(text) ELSE to
    IN  IF from >= end THEN << >> ELSE SubSeq(text, 1, end)

\* text.slice(from, to) for 0 <= from: characters from .. to-1 (0-based),
\* clipped to the length of the text (documentProcessor.ts:11)
slice(text, from, to) ==
    LET end == IF to > Len(text) THEN Len(text) ELSE to
    IN  IF from >= end THEN << >> ELSE SubSeq(text, from + 1, end)

\* text.trim(): drop leading and trailing whitespace (documentProcessor.ts:3)
RECURSIVE trimStart(_)
trimStart(text) ==
    IF text # << >> /\ Head(text) \in Whitespace
    THEN trimStart(Tail(text))
    ELSE text

RECURSIVE trimEnd(_)
trimEnd(text) ==
    IF text # << >> /\ text[Len(text)] \in Whitespace
    THEN trimEnd(SubSeq(text, 1, Len(text) - 1))
    ELSE text

trim(text) == trimEnd(trimStart(text))

\* the loop test written i <= text.length
RECURSIVE splitFrom_inclusiveTest(_, _, _)
splitFrom_inclusiveTest(text, i, chunkSize) ==
    IF i <= Len(text)
    THEN << slice(text, i, i + chunkSize) >>
             \o splitFrom_inclusiveTest(text, i + chunkSize, chunkSize)
    ELSE << >>

\* the for loop of splitDocument: chunks from offset i on
RECURSIVE splitFrom(_, _, _)
splitFrom(text, i, chunkSize) ==
    IF i < Len(text)
    THEN << slice(text, i, i + chunkSize) >> \o splitFrom(text, i + chunkSize, chunkSize)
    ELSE << >>

\* only the empty text gives no chunks
splitDocument_noTrimTest(text, chunkSize) ==
    IF text = << >>
    THEN [threw |-> FALSE, chunks |-> << >>]
    ELSE IF chunkSize <= 0
         THEN [threw |-> TRUE, chunks |-> << >>]
         ELSE [threw |-> FALSE, chunks |-> splitFrom(text, 0, chunkSize)]

\* the trimmed text split
splitDocument_trimmed(text, chunkSize) ==
    IF trim(text) = << >>
    THEN [threw |-> FALSE, chunks |-> << >>]
    ELSE IF chunkSize <= 0
         THEN [threw |-> TRUE, chunks |-> << >>]
         ELSE [threw |-> FALSE, chunks |-> splitFrom(trim(text), 0, chunkSize)]

\* DocumentProcessor.splitDocument; the result is [threw, chunks]
splitDocument(text, chunkSize) ==
    IF trim(text) = << >>
    THEN [threw |-> FALSE, chunks |-> << >>]
    ELSE IF chunkSize <= 0
         THEN [threw |-> TRUE, chunks |-> << >>]
         ELSE [threw |-> FALSE, chunks |-> splitFrom(text, 0, chunkSize)]

Repeat(c, n) == [k \in 1..n |-> c]

\* The documents a run is given: blank and non-blank texts of every length
\* up to MaxDocLen.
Documents ==
    {Repeat("a", n) : n \in 0..MaxDocLen} \cup {Repeat(" ", n) : n \in 1..MaxDocLen}
        \cup {<<" ", "a">>, <<"a", " ", "a">>}

\* ------------------------------------------------------------------------
\* The remote API: what one axios.post can resolve to
\* ------------------------------------------------------------------------

\* Audio bodies the remote can answer with
AudioData == {"audioA", "audioB"}

\* Status codes of error responses (error.response.status)
ErrorStatuses == {400, 404, 429, 500, 503, 504}

\* error.code of an error with a request but no response
NetworkCodes == {"ECONNABORTED", "ECONNRESET"}

\* a 2xx answer carrying audio
Success(d) == [kind |-> "ok", status |-> 200, code |-> "", data |-> d]

\* error.response is set: the server answered with a non-2xx status
Response(s) == [kind |-> "response", status |-> s, code |-> "", data |-> ""]

\* error.request is set, error.response is not: no answer arrived
NoAnswer(c) == [kind |-> "request", status |-> 0, code |-> c, data |-> ""]

\* neither is set: the request could not be built or sent
SetupFailure == [kind |-> "setup", status |-> 0, code |-> "", data |-> ""]

Failures ==
    {Response(s) : s \in ErrorStatuses} \cup {NoAnswer(c) : c \in NetworkCodes}
        \cup {SetupFailure}

RemoteOutcomes == {Success(d) : d \in AudioData} \cup Failures

\* ------------------------------------------------------------------------
\* OpenAIClient.generateSpeech: the retry loop
\* ------------------------------------------------------------------------

\* one attempt too many
maxRetries_four == 3 + 1

maxRetries == 3

\* new OpenAIError(message, statusCode, errorCode)
OpenAIError(statusCode, errorCode) ==
    [statusCode |-> statusCode, errorCode |-> errorCode]

NoError == [statusCode |-> 0, errorCode |-> ""]

\* what the catch block decides: throw an OpenAIError, or fall through to
\* the backoff wait
Throw(statusCode, errorCode) ==
    [throw |-> TRUE, error |-> OpenAIError(statusCode, errorCode)]

FallThrough == [throw |-> FALSE, error |-> NoError]

\* every error status taken for transient
isTransientError_from400(statusCode) == statusCode >= 400 /\ statusCode < 600

\* const isTransientError = statusCode >= 500 && statusCode < 600
isTransientError(statusCode) == statusCode >= 500 /\ statusCode < 600

\* the rate-limit test left out
onResponse_no429(statusCode, att) ==
    IF statusCode = 504
    THEN [throw |-> TRUE, error |-> [statusCode |-> 504, errorCode |-> "OPENAI_TIMEOUT"]]
    ELSE IF ~(statusCode >= 500 /\ statusCode < 600) \/ att >= 3
         THEN [throw |-> TRUE, error |-> [statusCode |-> statusCode, errorCode |-> "API_ERROR"]]
         ELSE [throw |-> FALSE, error |-> [statusCode |-> 0, errorCode |-> ""]]

\* the gateway-timeout test left out
onResponse_no504(statusCode, att) ==
    IF statusCode = 429
    THEN [throw |-> TRUE, error |-> [statusCode |-> 429, errorCode |-> "RATE_LIMIT_EXCEEDED"]]
    ELSE IF ~(statusCode >= 500 /\ statusCode < 600) \/ att >= 3
         THEN [throw |-> TRUE, error |-> [statusCode |-> statusCode, errorCode |-> "API_ERROR"]]
         ELSE [throw |-> FALSE, error |-> [statusCode |-> 0, errorCode |-> ""]]

\* if (error.response) { ... }: att is attempt after attempt++
onResponse(statusCode, att) ==
    IF statusCode = 504 THEN Throw(504, "OPENAI_TIMEOUT")
    ELSE IF statusCode = 429 THEN Throw(429, "RATE_LIMIT_EXCEEDED")
    ELSE IF ~isTransientError(statusCode) \/ att >= maxRetries
         THEN Throw(statusCode, "API_ERROR")
         ELSE FallThrough

\* the ECONNABORTED test left out
onNoResponse_noAbortTest(code, att) ==
    IF att >= 3
    THEN [throw |-> TRUE, error |-> [statusCode |-> 500, errorCode |-> "NO_RESPONSE"]]
    ELSE [throw |-> FALSE, error |-> [statusCode |-> 0, errorCode |-> ""]]

\* attempt > maxRetries instead of attempt >= maxRetries
onNoResponse_offByOne(code, att) ==
    IF code = "ECONNABORTED"
    THEN [throw |-> TRUE, error |-> [statusCode |-> 504, errorCode |-> "REQUEST_TIMEOUT"]]
    ELSE IF att > 3
         THEN [throw |-> TRUE, error |-> [statusCode |-> 500, errorCode |-> "NO_RESPONSE"]]
         ELSE [throw |-> FALSE, error |-> [statusCode |-> 0, errorCode |-> ""]]

\* else if (error.request) { ... }
onNoResponse(code, att) ==
    IF code = "ECONNABORTED" THEN Throw(504, "REQUEST_TIMEOUT")
    ELSE IF att >= maxRetries THEN Throw(500, "NO_RESPONSE")
    ELSE FallThrough

\* the last attempt not tested for
onSetupError_neverThrows(att) == [throw |-> FALSE, error |-> [statusCode |-> 0, errorCode |-> ""]]

\* else { ... }: something happened in setting up the request
onSetupError(att) ==
    IF att >= maxRetries THEN Throw(500, "REQUEST_SETUP_ERROR")
    ELSE FallThrough

\* the catch block, after attempt++
catch(e, att) ==
    IF e.kind = "response" THEN onResponse(e.status, att)
    ELSE IF e.kind = "request" THEN onNoResponse(e.code, att)
    ELSE onSetupError(att)

\* the delay counted from the attempt to come, not from the attempts made
backoffDelay_nextAttempt(att) == 1000 * (att + 1)

\* a constant delay
backoffDelay_constant(att) == 1000

\* setTimeout(resolve, 1000 * attempt)
backoffDelay(att) == 1000 * att

\* the hints about pace and pitch (documentProcessor.ts:118-125)
fasterHint == " Speak at a faster pace."

slowerHint == " Speak at a slower pace."

higherHint == " Use a higher pitch."

lowerHint == " Use a lower pitch."

\* if (voiceOptions.speed): an option left out and the number 0 are falsy
truthy(option) == option.defined /\ option.value # 0

\* voiceOptions.speed > 1, the speed counted in steps of 1 / SpeedUnit
speedHint(speed) ==
    IF truthy(speed)
    THEN << IF speed.value > 1 * SpeedUnit THEN fasterHint ELSE slowerHint >>
    ELSE << >>

\* voiceOptions.pitch > 0
pitchHint(pitch) ==
    IF truthy(pitch)
    THEN << IF pitch.value > 0 THEN higherHint ELSE lowerHint >>
    ELSE << >>

\* let formattedInstructions = instructions; ... += hint: the instructions
\* are the sequence of their sentences
formattedInstructions(instructions, voiceOptions) ==
    instructions \o speedHint(voiceOptions.speed) \o pitchHint(voiceOptions.pitch)

\* const payload = { model, input: text, voice, instructions:
\* formattedInstructions }, built anew in every pass of the loop
payload(input, instructions, voiceOptions) ==
    [model |-> "gpt-4o-mini-tts", input |-> input, voice |-> "alloy",
     instructions |-> formattedInstructions(instructions, voiceOptions)]

\* ------------------------------------------------------------------------
\* State
\* ------------------------------------------------------------------------

VARIABLES
    pc,         \* generateSpeechFromDocument: "idle", "loop", "await", "done", "raised"
    document,   \* its argument
    chunks,     \* const chunks
    i,          \* the loop index (0-based)
    filePaths,  \* const filePaths: the chunk numbers of the paths pushed
    files,      \* outputDir: chunk number -> content of chunk_<n>.mp3
    calls,      \* the generateSpeech invocations made, in order
    results,    \* how each awaited call ended (the console output of the run)
    cpc,        \* generateSpeech: "idle", "post", "backoff", "returned", "thrown"
    text,       \* its argument
    attempt,    \* let attempt
    sent,       \* the payloads posted by this call, in order
    outcomes,   \* what each post of this call resolved to, in order
    waits,      \* the delays of the setTimeout calls of this call, in order
    ret,        \* the buffer returned
    error,      \* the OpenAIError thrown
    inFlight,   \* the number of posts sent and not yet resolved
    handler,    \* who invoked the run: "none", "direct", "process", "processText"
    response,   \* the HTTP response of the handler: status and code
    prev,       \* what the invocation before this one ended with
    splitArgs,  \* the arguments of a splitDocument call on its own
    splitOut,   \* what that call returned
    voiceArgs,  \* instructions and voiceOptions of a generateSpeech call
    voiceOut,   \* the formattedInstructions of its payload
    combineArgs,\* filePaths of a combineAudioFiles call
    combineOut, \* where that call is and what it returned
    generated,  \* the tree under generatedDir: entry -> [exists, age]
    cleanup,    \* deleteOldFiles: where it is, what it listed, the tree before
    enableAuth, \* const enableAuth
    session,    \* the session store: session id -> req.session.isAuthenticated
    requests,   \* the requests the middleware chain has answered, in order
    reqFile,    \* req.file of /process in uploadDir: "none", "stored", "removed"
    other       \* a second run of generateSpeechFromDocument on the same outputDir

runVars == <<pc, document, chunks, i, filePaths, files, calls, results>>

clientVars == <<cpc, text, attempt, sent, outcomes, waits, ret, error, inFlight>>

\* the state of the calls made on their own
\* the server's sessions and requests, and the second run
webVars == <<enableAuth, session, requests, other>>

sideVars == <<voiceArgs, voiceOut, combineArgs, combineOut, generated, cleanup, webVars>>

\* the state of the pipeline and of splitDocument called on its own
mainVars == <<runVars, clientVars, handler, response, prev, splitArgs, splitOut, reqFile>>

outerVars == <<handler, response, prev, splitArgs, splitOut, sideVars, reqFile>>

vars == <<pc, document, chunks, i, filePaths, files, calls, results,
          cpc, text, attempt, sent, outcomes, waits, ret, error, inFlight,
          handler, response, prev, splitArgs, splitOut,
          voiceArgs, voiceOut, combineArgs, combineOut, generated, cleanup,
          enableAuth, session, requests, reqFile, other>>

NoFile == ""

NoData == ""

\* the file named by the 0-based index
outputPath_zeroBased(idx) == idx

\* path.join(outputDir, `chunk_${i + 1}.mp3`): a path is named by its number
outputPath(idx) == idx + 1

\* no HTTP response yet
NoResponse == [status |-> 0, code |-> ""]

\* no invocation before this one
NoPrev ==
    [ran |-> FALSE, attempted |-> 0, written |-> 0,
     codes |-> {}, returned |-> << >>, response |-> NoResponse]

\* splitDocument not called on its own
NoArgs == [text |-> << >>, chunkSize |-> ChunkSize]

NotCalled == [called |-> FALSE, threw |-> FALSE, chunks |-> << >>]

\* an optional number of VoiceOptions: left out, or given with a value
Undefined == [defined |-> FALSE, value |-> 0]

Number(n) == [defined |-> TRUE, value |-> n]

\* generateSpeech not called on its own; voiceOptions = {}
NoVoiceArgs == [instructions |-> << >>, speed |-> Undefined, pitch |-> Undefined]

NotFormatted == [called |-> FALSE, instructions |-> << >>]

\* what combineAudioFiles can return: null or a path
Null == [type |-> "null", path |-> 0]

PathValue(p) == [type |-> "string", path |-> p]

\* combineAudioFiles not called
NoCombineArgs == [filePaths |-> << >>, outputPath |-> 0]

NotCombined == [pc |-> "idle", value |-> Null, execs |-> 0, tool |-> "none", created |-> {}]

\* the entries under generatedDir: the chunks /process writes into it, the
\* directory /process-text makes for a session and a chunk written there
TopFiles == {"chunk_1.mp3", "chunk_2.mp3"}

SessionDir == "session"

SessionFile == "session/chunk_1.mp3"

Entries == TopFiles \cup {SessionDir, SessionFile}

Absent == [exists |-> FALSE, age |-> 0]

EmptyDir == [e \in Entries |-> Absent]

\* deleteOldFiles not called
NoCleanup == [pc |-> "idle", pending |-> {}, before |-> EmptyDir]

\* the session ids of two browsers
Sids == {1, 2}

NoSessions == [sid \in Sids |-> FALSE]

\* authentication is off and nobody has logged in
NoWeb == enableAuth = FALSE /\ session = NoSessions

\* no second run
NoOther == [pc |-> "idle", n |-> 0, i |-> 0, filePaths |-> << >>]

\* none of the calls on their own has arguments
NoSideCalls ==
    /\ voiceArgs = NoVoiceArgs
    /\ combineArgs = NoCombineArgs
    /\ generated = EmptyDir
    /\ NoWeb

\* nothing has been invoked yet; outputDir is empty
Quiet ==
    /\ pc = "idle"
    /\ document = << >>
    /\ chunks = << >>
    /\ i = 0
    /\ filePaths = << >>
    /\ files = [n \in 1..(MaxDocLen + LongDocLen) |-> NoFile]
    /\ calls = << >>
    /\ results = << >>
    /\ cpc = "idle"
    /\ text = << >>
    /\ attempt = 0
    /\ sent = << >>
    /\ outcomes = << >>
    /\ waits = << >>
    /\ ret = NoData
    /\ error = NoError
    /\ inFlight = 0
    /\ handler = "none"
    /\ response = NoResponse
    /\ prev = NoPrev
    /\ splitOut = NotCalled
    /\ voiceOut = NotFormatted
    /\ combineOut = NotCombined
    /\ cleanup = NoCleanup
    /\ requests = << >>
    /\ reqFile = "none"
    /\ other = NoOther

Init == Quiet /\ splitArgs = NoArgs /\ NoSideCalls

\* ------------------------------------------------------------------------
\* generateSpeech, step by step
\* ------------------------------------------------------------------------

\* formattedInstructions declared before the loop: the hints are appended
\* in every pass to what the pass before left
whileTest_accumulates(att, log, input) ==
    IF att < 3
    THEN [cpc |-> "post",
          sent |-> Append(log, payload(input,
                                       IF log = << >> THEN voiceArgs.instructions
                                       ELSE log[Len(log)].instructions,
                                       voiceArgs)),
          error |-> [statusCode |-> 0, errorCode |-> ""]]
    ELSE [cpc |-> "thrown", sent |-> log,
          error |-> [statusCode |-> 500, errorCode |-> "UNEXPECTED_ERROR"]]

\* while (attempt < maxRetries) { try { ... await axios.post(...) : the loop
\* test and, when it passes, the next post; when it fails, the throw after
\* the loop.  att is the value of attempt, log the payloads posted so far.
whileTest(att, log, input) ==
    IF att < maxRetries
    THEN [cpc |-> "post",
          sent |-> Append(log, payload(input, voiceArgs.instructions, voiceArgs)),
          error |-> NoError]
    ELSE [cpc |-> "thrown", sent |-> log,
          error |-> OpenAIError(500, "UNEXPECTED_ERROR")]

\* the buffer built from something else than response.data
PostSucceeds_emptyBuffer(d) ==
    /\ cpc = "post"
    /\ outcomes' = Append(outcomes, [kind |-> "ok", status |-> 200, code |-> "", data |-> d])
    /\ ret' = ""
    /\ cpc' = "returned"
    /\ UNCHANGED <<text, attempt, sent, waits, error>>
    /\ UNCHANGED <<pc, document, chunks, i, filePaths, files, calls, results>>
    /\ UNCHANGED outerVars
    /\ inFlight' = inFlight - 1

\* axios.post resolved with a 2xx response: return Buffer.from(response.data)
PostSucceeds(d) ==
    /\ cpc = "post"
    /\ outcomes' = Append(outcomes, Success(d))
    /\ ret' = d
    /\ cpc' = "returned"
    /\ UNCHANGED <<text, attempt, sent, waits, error>>
    /\ UNCHANGED runVars
    /\ UNCHANGED outerVars
    /\ inFlight' = inFlight - 1

\* axios.post rejected with e: the catch block up to its throw or its
\* await of the backoff timer
PostFails(e) ==
    /\ cpc = "post"
    /\ outcomes' = Append(outcomes, e)
    /\ attempt' = attempt + 1
    /\ LET d == catch(e, attempt + 1)
       IN  IF d.throw
           THEN /\ error' = d.error
                /\ cpc' = "thrown"
                /\ waits' = waits
           ELSE /\ error' = error
                /\ cpc' = "backoff"
                /\ waits' = Append(waits, backoffDelay(attempt + 1))
    /\ UNCHANGED <<text, sent, ret>>
    /\ UNCHANGED runVars
    /\ UNCHANGED outerVars
    /\ inFlight' = inFlight - 1

\* the backoff timer fired: back to the loop test
BackoffElapsed ==
    /\ cpc = "backoff"
    /\ LET w == whileTest(attempt, sent, text)
       IN  /\ cpc' = w.cpc
           /\ sent' = w.sent
           /\ error' = w.error
    /\ UNCHANGED <<text, attempt, outcomes, waits, ret>>
    /\ UNCHANGED runVars
    /\ UNCHANGED outerVars
    /\ inFlight' = IF whileTest(attempt, sent, text).cpc = "post" THEN inFlight + 1 ELSE inFlight

\* ------------------------------------------------------------------------
\* generateSpeechFromDocument, step by step
\* ------------------------------------------------------------------------

\* the body of generateSpeechFromDocument up to its loop: split the
\* document and enter the loop
Invoke(doc) ==
    /\ pc = "idle"
    /\ document' = doc
    /\ LET s == splitDocument(doc, ChunkSize)
       IN  IF s.threw
           THEN /\ pc' = "raised"
                /\ chunks' = chunks
           ELSE /\ pc' = "loop"
                /\ chunks' = s.chunks
    /\ i' = 0
    /\ filePaths' = << >>
    /\ UNCHANGED <<files, calls, results>>
    /\ UNCHANGED clientVars

\* generateSpeechFromDocument called directly
GenerateSpeechFromDocument(doc) ==
    /\ handler = "none"
    /\ handler' = "direct"
    /\ Invoke(doc)
    /\ UNCHANGED <<response, prev, splitArgs, splitOut, sideVars, reqFile>>

\* the call started and not awaited: the loop goes on to the next chunk
CallClient_noAwait ==
    /\ pc = "loop"
    /\ i < Len(chunks)
    /\ pc' = "loop"
    /\ i' = i + 1
    /\ calls' = Append(calls, [index |-> i, text |-> chunks[i + 1]])
    /\ text' = chunks[i + 1]
    /\ attempt' = 0
    /\ outcomes' = << >>
    /\ waits' = << >>
    /\ ret' = ""
    /\ cpc' = "post"
    /\ sent' = <<[model |-> "gpt-4o-mini-tts", input |-> chunks[i + 1]]>>
    /\ error' = [statusCode |-> 0, errorCode |-> ""]
    /\ inFlight' = inFlight + 1
    /\ UNCHANGED <<document, chunks, filePaths, files, results>>
    /\ UNCHANGED <<handler, response, prev, splitArgs, splitOut, sideVars, reqFile>>

\* the attempt counter kept by the client across its calls: a call starts
\* with the failed attempts of the call before
CallClient_sharedCounter ==
    /\ pc = "loop"
    /\ i < Len(chunks)
    /\ pc' = "await"
    /\ calls' = Append(calls, [index |-> i, text |-> chunks[i + 1]])
    /\ text' = chunks[i + 1]
    /\ outcomes' = << >>
    /\ waits' = << >>
    /\ ret' = ""
    /\ LET before == IF results = << >> THEN 0
                     ELSE IF results[Len(results)].error.errorCode = ""
                          THEN results[Len(results)].attempts - 1
                          ELSE results[Len(results)].attempts
           w == whileTest(before, << >>, chunks[i + 1])
       IN  /\ attempt' = before
           /\ cpc' = w.cpc
           /\ sent' = w.sent
           /\ error' = w.error
           /\ inFlight' = IF w.cpc = "post" THEN inFlight + 1 ELSE inFlight
    /\ UNCHANGED <<document, chunks, i, filePaths, files, results>>
    /\ UNCHANGED outerVars

\* i < chunks.length: await this.client.generateSpeech(chunks[i], ...)
CallClient ==
    /\ pc = "loop"
    /\ i < Len(chunks)
    /\ pc' = "await"
    /\ calls' = Append(calls, [index |-> i, text |-> chunks[i + 1]])
    /\ text' = chunks[i + 1]
    /\ attempt' = 0
    /\ outcomes' = << >>
    /\ waits' = << >>
    /\ ret' = NoData
    /\ LET w == whileTest(0, << >>, chunks[i + 1])
       IN  /\ cpc' = w.cpc
           /\ sent' = w.sent
           /\ error' = w.error
    /\ UNCHANGED <<document, chunks, i, filePaths, files, results>>
    /\ UNCHANGED outerVars
    /\ inFlight' = IF whileTest(0, << >>, chunks[i + 1]).cpc = "post" THEN inFlight + 1 ELSE inFlight

\* the frame of the finished call is gone
ClientGone ==
    /\ cpc' = "idle"
    /\ text' = << >>
    /\ attempt' = 0
    /\ sent' = << >>
    /\ outcomes' = << >>
    /\ waits' = << >>
    /\ ret' = NoData
    /\ error' = NoError
    /\ inFlight' = inFlight

\* the path put at the front of filePaths (unshift for push)
CallReturned_unshift(writeOk) ==
    /\ pc = "await"
    /\ cpc = "returned"
    /\ IF writeOk
       THEN /\ files' = [files EXCEPT ![i + 1] = ret]
            /\ filePaths' = <<i + 1>> \o filePaths
       ELSE UNCHANGED <<files, filePaths>>
    /\ results' = Append(results, [index |-> i, last |-> outcomes[Len(outcomes)],
                                   attempts |-> Len(sent),
                                   error |-> [statusCode |-> 0, errorCode |-> ""],
                                   written |-> writeOk])
    /\ i' = i + 1
    /\ pc' = "loop"
    /\ cpc' = "idle"
    /\ text' = << >>
    /\ attempt' = 0
    /\ sent' = << >>
    /\ outcomes' = << >>
    /\ waits' = << >>
    /\ ret' = ""
    /\ error' = [statusCode |-> 0, errorCode |-> ""]
    /\ UNCHANGED <<document, chunks, calls>>
    /\ UNCHANGED outerVars
    /\ inFlight' = inFlight

\* generateSpeech returned: write the file, push the path; a failing
\* writeFileSync lands in the same catch as a failing call
CallReturned(writeOk) ==
    /\ pc = "await"
    /\ cpc = "returned"
    /\ IF writeOk
       THEN /\ files' = [files EXCEPT ![outputPath(i)] = ret]
            /\ filePaths' = Append(filePaths, outputPath(i))
       ELSE UNCHANGED <<files, filePaths>>
    /\ results' = Append(results, [index |-> i, last |-> outcomes[Len(outcomes)],
                                   attempts |-> Len(sent), error |-> NoError,
                                   written |-> writeOk])
    /\ i' = i + 1
    /\ pc' = "loop"
    /\ ClientGone
    /\ UNCHANGED <<document, chunks, calls>>
    /\ UNCHANGED outerVars

\* the error of the call rethrown to the caller of the run
CallThrew_rethrows ==
    /\ pc = "await"
    /\ cpc = "thrown"
    /\ pc' = "raised"
    /\ cpc' = "idle"
    /\ UNCHANGED <<document, chunks, i, filePaths, files, calls, results>>
    /\ UNCHANGED <<text, attempt, sent, outcomes, waits, ret, error, inFlight>>
    /\ UNCHANGED outerVars

\* the path of the chunk pushed although its call threw
CallThrew_pushes ==
    /\ pc = "await"
    /\ cpc = "thrown"
    /\ results' = Append(results, [index |-> i, last |-> outcomes[Len(outcomes)],
                                   attempts |-> Len(sent), error |-> error,
                                   written |-> FALSE])
    /\ filePaths' = Append(filePaths, i + 1)
    /\ i' = i + 1
    /\ pc' = "loop"
    /\ cpc' = "idle"
    /\ text' = << >>
    /\ attempt' = 0
    /\ sent' = << >>
    /\ outcomes' = << >>
    /\ waits' = << >>
    /\ ret' = ""
    /\ error' = [statusCode |-> 0, errorCode |-> ""]
    /\ UNCHANGED <<document, chunks, files, calls, inFlight>>
    /\ UNCHANGED <<handler, response, prev, splitArgs, splitOut, sideVars, reqFile>>

\* the file of the chunk removed when its call threw
CallThrew_unlinks ==
    /\ pc = "await"
    /\ cpc = "thrown"
    /\ results' = Append(results, [index |-> i,
                                   last |-> IF outcomes = << >> THEN SetupFailure
                                            ELSE outcomes[Len(outcomes)],
                                   attempts |-> Len(sent), error |-> error,
                                   written |-> FALSE])
    /\ files' = [files EXCEPT ![i + 1] = ""]
    /\ i' = i + 1
    /\ pc' = "loop"
    /\ ClientGone
    /\ UNCHANGED <<document, chunks, filePaths, calls>>
    /\ UNCHANGED outerVars

\* generateSpeech threw: catch (error) { console.error(...); continue; }
CallThrew ==
    /\ pc = "await"
    /\ cpc = "thrown"
    /\ results' = Append(results, [index |-> i,
                                   last |-> IF outcomes = << >> THEN SetupFailure
                                            ELSE outcomes[Len(outcomes)],
                                   attempts |-> Len(sent), error |-> error,
                                   written |-> FALSE])
    /\ i' = i + 1
    /\ pc' = "loop"
    /\ ClientGone
    /\ UNCHANGED <<document, chunks, filePaths, files, calls>>
    /\ UNCHANGED outerVars

\* i >= chunks.length: return filePaths
Return ==
    /\ pc = "loop"
    /\ i >= Len(chunks)
    /\ pc' = "done"
    /\ UNCHANGED <<document, chunks, i, filePaths, files, calls, results>>
    /\ UNCHANGED clientVars
    /\ UNCHANGED outerVars

Next ==
    \/ \E doc \in Documents : GenerateSpeechFromDocument(doc)
    \/ CallClient
    \/ \E d \in AudioData : PostSucceeds(d)
    \/ \E e \in Failures : PostFails(e)
    \/ BackoffElapsed
    \/ \E writeOk \in BOOLEAN : CallReturned(writeOk)
    \/ CallThrew
    \/ Return

Spec == Init /\ [][Next]_vars

\* ------------------------------------------------------------------------
\* The request handlers POST /process and POST /process-text
\* ------------------------------------------------------------------------

\* res.status(status).json({ code })
Json(status, code) == [status |-> status, code |-> code]

\* the texts the handlers are given: empty, blank, one chunk, two chunks
HttpDocuments == {<< >>, <<" ">>, <<"a">>, Repeat("a", ChunkSize + 1)}

\* an uploaded file of POST /process: req.file may be missing, and the file
\* may not be readable as text
Uploads ==
    {[present |-> FALSE, readable |-> FALSE, content |-> << >>],
     [present |-> TRUE, readable |-> FALSE, content |-> << >>]}
        \cup {[present |-> TRUE, readable |-> TRUE, content |-> doc] : doc \in HttpDocuments}

\* req.body of POST /process-text: text may be missing or no string
Bodies ==
    {[isString |-> FALSE, text |-> << >>]}
        \cup {[isString |-> TRUE, text |-> doc] : doc \in HttpDocuments}

\* trimmedText.length > 5000: the limit is 5 chunks of the pipeline
\* the limit one chunk higher
maxTextLength_six == 6 * ChunkSize

maxTextLength == 5 * ChunkSize

\* POST /process up to its await of generateSpeechFromDocument
Process(upload) ==
    /\ pc = "idle"
    /\ handler = "none"
    /\ handler' = "process"
    /\ IF ~upload.present
       THEN /\ response' = Json(400, "FILE_REQUIRED")
            /\ UNCHANGED <<runVars, clientVars>>
       ELSE IF ~upload.readable
       THEN /\ response' = Json(400, "FILE_READ_ERROR")
            /\ UNCHANGED <<runVars, clientVars>>
       ELSE IF trim(upload.content) = << >>
       THEN /\ response' = Json(400, "EMPTY_FILE")
            /\ UNCHANGED <<runVars, clientVars>>
       ELSE /\ response' = response
            /\ Invoke(upload.content)
    /\ reqFile' = IF upload.present THEN "stored" ELSE "none"
    /\ UNCHANGED <<prev, splitArgs, splitOut, sideVars>>

\* POST /process-text up to its await of generateSpeechFromDocument
ProcessText(body) ==
    /\ pc = "idle"
    /\ handler = "none"
    /\ handler' = "processText"
    /\ IF ~body.isString \/ body.text = << >>
       THEN /\ response' = Json(400, "TEXT_REQUIRED")
            /\ UNCHANGED <<runVars, clientVars>>
       ELSE IF Len(trim(body.text)) = 0
       THEN /\ response' = Json(400, "TEXT_EMPTY")
            /\ UNCHANGED <<runVars, clientVars>>
       ELSE IF Len(trim(body.text)) > maxTextLength
       THEN /\ response' = Json(400, "TEXT_TOO_LONG")
            /\ UNCHANGED <<runVars, clientVars>>
       ELSE /\ response' = response
            /\ Invoke(trim(body.text))
    /\ UNCHANGED <<prev, splitArgs, splitOut, sideVars, reqFile>>

\* the test of generatedFiles.length left out
answer_noLengthTest(raised, err, generatedFiles) ==
    IF raised
    THEN IF err # [statusCode |-> 0, errorCode |-> ""]
         THEN [status |-> err.statusCode, code |-> err.errorCode]
         ELSE [status |-> 500, code |-> "GENERAL_ERROR"]
    ELSE [status |-> 200, code |-> ""]

\* what both handlers answer once the run is over: the catch block when it
\* raised (an OpenAIError is passed on with its status and code, the error
\* of splitDocument is a GENERAL_ERROR), else by generatedFiles.length
answer(raised, err, generatedFiles) ==
    IF raised
    THEN IF err # NoError
         THEN Json(err.statusCode, err.errorCode)
         ELSE Json(500, "GENERAL_ERROR")
    ELSE IF Len(generatedFiles) = 0
         THEN Json(500, "NO_FILES_GENERATED")
         ELSE Json(200, "")

\* the run is over: the handler (after removing the upload, for /process)
\* sends its response
Respond ==
    /\ handler \in {"process", "processText"}
    /\ response = NoResponse
    /\ pc \in {"done", "raised"}
    /\ response' = answer(pc = "raised", error, filePaths)
    /\ reqFile' = IF handler = "process" /\ pc = "done" THEN "removed" ELSE reqFile
    /\ UNCHANGED <<runVars, clientVars>>
    /\ UNCHANGED <<handler, prev, splitArgs, splitOut, sideVars>>

\* the invocation is over: for a handler its response is sent, for a direct
\* call the run returned or raised
Finished ==
    \/ response # NoResponse
    \/ handler = "direct" /\ pc \in {"done", "raised"}

\* the next invocation can begin: the frame of the finished one is gone,
\* the files it wrote stay in outputDir
NextRequest ==
    /\ Finished
    /\ prev' = [ran |-> pc = "done",
                attempted |-> Len(calls),
                written |-> Len(SelectSeq(results, LAMBDA r : r.written)),
                codes |-> {results[k].error.errorCode : k \in 1..Len(results)},
                returned |-> filePaths, response |-> response]
    /\ handler' = "none"
    /\ response' = NoResponse
    /\ pc' = "idle"
    /\ document' = << >>
    /\ chunks' = << >>
    /\ i' = 0
    /\ filePaths' = << >>
    /\ calls' = << >>
    /\ results' = << >>
    /\ UNCHANGED files
    /\ reqFile' = "none"
    /\ UNCHANGED clientVars
    /\ UNCHANGED <<splitArgs, splitOut, sideVars>>

\* what the remote answers under SpecHttp
HttpAudio == {"audioA"}

HttpFailures == {Response(429), Response(504), Response(500)}

NextHttp ==
    \/ \E doc \in HttpDocuments : GenerateSpeechFromDocument(doc)
    \/ \E upload \in Uploads : Process(upload)
    \/ \E body \in Bodies : ProcessText(body)
    \/ CallClient
    \/ \E d \in HttpAudio : PostSucceeds(d)
    \/ \E e \in HttpFailures : PostFails(e)
    \/ BackoffElapsed
    \/ \E writeOk \in BOOLEAN : CallReturned(writeOk)
    \/ CallThrew
    \/ Return
    \/ Respond
    \/ NextRequest

SpecHttp == Init /\ [][NextHttp]_vars

\* ------------------------------------------------------------------------
\* Long documents: runs of up to LongSegments chunks against a remote that
\* answers with audio or with a failure that is not retried
\* ------------------------------------------------------------------------

LongDocuments == {Repeat("a", n) : n \in 0..LongDocLen}

LongFailures == {Response(429), Response(504)}

NextLong ==
    \/ \E doc \in LongDocuments : GenerateSpeechFromDocument(doc)
    \/ CallClient
    \/ \E d \in AudioData : PostSucceeds(d)
    \/ \E e \in LongFailures : PostFails(e)
    \/ \E writeOk \in BOOLEAN : CallReturned(writeOk)
    \/ CallThrew
    \/ Return

SpecLong == Init /\ [][NextLong]_vars

\* ------------------------------------------------------------------------
\* Vocabulary of the properties
\* ------------------------------------------------------------------------

Last(seq) == seq[Len(seq)]

\* a 5xx response other than 504
IsServerError(o) ==
    o.kind = "response" /\ o.status >= 500 /\ o.status < 600 /\ o.status # 504

\* a 4xx response other than 429
IsRejection(o) ==
    o.kind = "response" /\ o.status >= 400 /\ o.status < 500 /\ o.status # 429

\* no response, not by an explicit client timeout
IsNetworkFailure(o) == o.kind = "request" /\ o.code # "ECONNABORTED"

\* the failures the retry policy names retryable
IsRetryable(o) == IsServerError(o) \/ IsNetworkFailure(o)

\* the call ended by throwing, having made no post after its last failure
\* and no backoff wait after it
EndedAtOnce ==
    /\ cpc = "thrown"
    /\ Len(sent) = Len(outcomes)
    /\ Len(waits) = Len(outcomes) - 1

\* the generateSpeech calls a run makes for its first n chunks
callsFor(n) == [k \in 1..n |-> [index |-> k - 1, text |-> chunks[k]]]

\* ------------------------------------------------------------------------
\* Properties of generateSpeechFromDocument
\* ------------------------------------------------------------------------

\* C1: whatever the outcomes of the segments, every segment is passed to
\* generateSpeech exactly once, in order, failed segments included, and the
\* run never ends by raising: it reaches its return with one call per chunk.
C1_EverySegmentCalledOnce ==
    /\ pc # "raised"
    /\ pc = "loop" => calls = callsFor(i)
    /\ pc = "await" => calls = callsFor(i + 1)
    /\ pc = "done" => /\ calls = callsFor(Len(chunks))
                      /\ Len(results) = Len(chunks)

\* a run of two chunks whose first chunk failed has returned
C1_Witness ==
    /\ pc = "done"
    /\ Len(chunks) >= 2
    /\ results[1].error # NoError
    /\ Len(calls) = Len(chunks)

\* ------------------------------------------------------------------------
\* Properties of generateSpeech
\* ------------------------------------------------------------------------

\* C2: when every attempt of a call is answered by a 5xx other than 504, the
\* call ends exactly at its 3rd attempt, having waited 1000 ms and then
\* 2000 ms, and throws API_ERROR with the status of the last response.
C2_AlwaysServerError ==
    (outcomes # << >> /\ \A k \in 1..Len(outcomes) : IsServerError(outcomes[k]))
        => /\ cpc \in {"post", "backoff", "thrown"}
           /\ (cpc = "thrown") = (Len(outcomes) = 3)
           /\ Len(sent) <= 3
           /\ cpc = "thrown" =>
                /\ Len(sent) = 3
                /\ waits = <<1000, 2000>>
                /\ error = [statusCode |-> outcomes[3].status, errorCode |-> "API_ERROR"]

\* three 5xx answers, the last with another status than the first
C2_Witness ==
    /\ cpc = "thrown"
    /\ Len(outcomes) = 3
    /\ \A k \in 1..3 : IsServerError(outcomes[k])
    /\ outcomes[1].status # outcomes[3].status

\* C3: whatever the remote answers, a call never posts more than 3 times and
\* its attempt counter never exceeds 3.
C3_AtMostThreeAttempts ==
    /\ attempt <= 3
    /\ Len(sent) <= 3
    /\ Len(outcomes) <= 3

\* a third attempt has failed
C3_Witness == attempt = 3 /\ Len(sent) = 3 /\ cpc = "thrown"

\* C4: a 429 answer, on whichever attempt, ends the call at once with
\* (429, RATE_LIMIT_EXCEEDED): no post and no wait follows it.
C4_RateLimitEndsCall ==
    /\ \A k \in 1..Len(outcomes) : outcomes[k] = Response(429) => k = Len(outcomes)
    /\ (outcomes # << >> /\ Last(outcomes) = Response(429))
        => /\ EndedAtOnce
           /\ error = [statusCode |-> 429, errorCode |-> "RATE_LIMIT_EXCEEDED"]
    /\ (outcomes # << >> /\ outcomes[1] = Response(429)) => Len(sent) = 1

\* a 429 on the 2nd attempt, after a retryable failure
C4_Witness ==
    /\ Len(outcomes) = 2
    /\ IsRetryable(outcomes[1])
    /\ outcomes[2] = Response(429)
    /\ cpc = "thrown"

\* C5: a 504 answer, on whichever attempt, ends the call at once with
\* (504, OPENAI_TIMEOUT): it is not retried as a 5xx.
C5_GatewayTimeoutEndsCall ==
    /\ \A k \in 1..Len(outcomes) : outcomes[k] = Response(504) => k = Len(outcomes)
    /\ (outcomes # << >> /\ Last(outcomes) = Response(504))
        => /\ EndedAtOnce
           /\ error = [statusCode |-> 504, errorCode |-> "OPENAI_TIMEOUT"]

\* a 504 on the 2nd attempt, after a retryable 5xx
C5_Witness ==
    /\ Len(outcomes) = 2
    /\ IsServerError(outcomes[1])
    /\ outcomes[2] = Response(504)
    /\ cpc = "thrown"

\* a result of the run that is a rejected request
IsRejected(r) == r.error # NoError /\ IsRejection(r.last)

\* a result of the run that is a 5xx after the last attempt
IsExhaustedServerError(r) == r.error # NoError /\ IsServerError(r.last)

\* a 4xx other than 429 ends the call at once with the status of the answer
RejectionEndsCall ==
    /\ \A k \in 1..Len(outcomes) : IsRejection(outcomes[k]) => k = Len(outcomes)
    /\ (outcomes # << >> /\ IsRejection(Last(outcomes)))
        => /\ EndedAtOnce
           /\ error.statusCode = Last(outcomes).status

C7_ClientTimeoutEndsCall ==
    /\ \A k \in 1..Len(outcomes) :
          outcomes[k] = NoAnswer("ECONNABORTED") => k = Len(outcomes)
    /\ (outcomes # << >> /\ Last(outcomes) = NoAnswer("ECONNABORTED"))
        => /\ EndedAtOnce
           /\ error = [statusCode |-> 504, errorCode |-> "REQUEST_TIMEOUT"]

\* a client timeout on the 2nd attempt, after a retryable failure
C7_Witness ==
    /\ Len(outcomes) = 2
    /\ IsRetryable(outcomes[1])
    /\ outcomes[2] = NoAnswer("ECONNABORTED")
    /\ cpc = "thrown"

\* C8: when every attempt of a call gets no response, none by a client
\* timeout, the call ends exactly at its 3rd attempt and throws NO_RESPONSE.
C8_AlwaysNoResponse ==
    (outcomes # << >> /\ \A k \in 1..Len(outcomes) : IsNetworkFailure(outcomes[k]))
        => /\ cpc \in {"post", "backoff", "thrown"}
           /\ (cpc = "thrown") = (Len(outcomes) = 3)
           /\ Len(sent) <= 3
           /\ cpc = "thrown" =>
                /\ Len(sent) = 3
                /\ error = [statusCode |-> 500, errorCode |-> "NO_RESPONSE"]

\* three attempts without a response
C8_Witness ==
    /\ cpc = "thrown"
    /\ Len(outcomes) = 3
    /\ \A k \in 1..3 : IsNetworkFailure(outcomes[k])

\* C9: a failure to build or send the request is not retried: it ends the
\* call at once with REQUEST_SETUP_ERROR, after exactly 1 attempt when it
\* is the first failure of the call.
C9_SetupErrorNotRetried ==
    /\ (outcomes # << >> /\ Last(outcomes) = SetupFailure)
        => /\ EndedAtOnce
           /\ error.errorCode = "REQUEST_SETUP_ERROR"
    /\ (outcomes # << >> /\ outcomes[1] = SetupFailure) => Len(sent) = 1

\* C10: every post after the first follows a failure of the retryable kinds
\* (a 5xx other than 504, or no response without a client timeout), and a
\* call that throws API_ERROR for a 5xx, or NO_RESPONSE, has made exactly 3
\* attempts.
C10_RetryOnlyRetryable ==
    /\ \A k \in 1..Len(outcomes) : k < Len(sent) => IsRetryable(outcomes[k])
    /\ (cpc = "thrown" /\ error.errorCode = "API_ERROR" /\ IsServerError(Last(outcomes)))
        => Len(sent) = 3
    /\ (cpc = "thrown" /\ error.errorCode = "NO_RESPONSE") => Len(sent) = 3

\* C11: the k-th wait of a call is 1000 * k ms and precedes attempt k + 1:
\* there is no wait before the 1st attempt, one wait between two
\* consecutive attempts, and none after the attempt that ends the call.
C11_LinearBackoff ==
    /\ waits = [k \in 1..Len(waits) |-> 1000 * k]
    /\ cpc = "post" => Len(waits) = Len(sent) - 1
    /\ cpc = "backoff" => Len(waits) = Len(sent) /\ Len(outcomes) = Len(sent)
    /\ cpc \in {"returned", "thrown"} =>
          Len(waits) = Len(sent) - 1 /\ Len(outcomes) = Len(sent)

\* a call that ended on its 3rd attempt after waiting 1000 and 2000 ms
C11_Witness ==
    /\ cpc \in {"returned", "thrown"}
    /\ Len(sent) = 3
    /\ waits = <<1000, 2000>>

\* C12: a successful response is the last outcome of its call, and the call
\* has then returned exactly the bytes of that response without posting
\* again, whatever failures came before it.
C12_ReturnsResponseBytes ==
    /\ \A k \in 1..Len(outcomes) : outcomes[k].kind = "ok" => k = Len(outcomes)
    /\ (outcomes # << >> /\ Last(outcomes).kind = "ok")
        => /\ cpc = "returned"
           /\ ret = Last(outcomes).data
           /\ Len(sent) = Len(outcomes)
    /\ cpc = "returned" => outcomes # << >> /\ Last(outcomes).kind = "ok"

\* a 5xx, then a success: the audio is returned after exactly 2 attempts
C12_Witness ==
    /\ cpc = "returned"
    /\ Len(sent) = 2
    /\ IsServerError(outcomes[1])
    /\ outcomes[2] = Success("audioB")
    /\ ret = "audioB"

\* the results of the segments whose audio was synthesized and written
Written(rs) == SelectSeq(rs, LAMBDA r : r.written)

\* the paths of those segments, in the order of the results
pathsOf(rs) == [k \in 1..Len(Written(rs)) |-> Written(rs)[k].index + 1]

\* C13: the list of the run holds exactly the paths of the segments that
\* were synthesized and written, none of a failed segment, in strictly
\* ascending index order, and is never longer than the number of segments
\* attempted.
C13_ListOfSucceededSegments ==
    /\ \A k \in 1..Len(results) : results[k].index = k - 1
    /\ \A k \in 1..Len(results) : results[k].written => results[k].error = NoError
    /\ filePaths = pathsOf(results)
    /\ \A m, n \in 1..Len(filePaths) : m < n => filePaths[m] < filePaths[n]
    /\ Len(filePaths) <= Len(calls)
    /\ pc = "done" => Len(results) = Len(chunks)

\* a finished run of two segments, both synthesized and written
C13_Witness ==
    /\ pc = "done"
    /\ Len(chunks) = 2
    /\ filePaths = <<1, 2>>

\* C19: at most one post is in flight at any time; while the call for the
\* segment at index i is in progress (posting, waiting for its backoff,
\* returned or thrown), the run awaits it, exactly the segments 0..i have
\* been passed to the client and exactly the segments 0..i-1 have been
\* resolved, those that succeeded with their file written.
C19_OneSegmentAtATime ==
    /\ inFlight \in {0, 1}
    /\ (inFlight = 1) = (cpc = "post")
    /\ cpc # "idle" =>
          /\ pc = "await"
          /\ Len(calls) = i + 1
          /\ Len(results) = i
          /\ text = chunks[i + 1]
    /\ \A k \in 1..Len(calls) : calls[k].index = k - 1
    /\ \A k \in 1..Len(results) :
          /\ results[k].index = k - 1
          /\ results[k].written => files[k] # NoFile

\* the first post for the 2nd segment is in flight, after the 1st segment
\* used 3 attempts and 2 backoff waits
C19_Witness ==
    /\ cpc = "post"
    /\ i = 1
    /\ Len(sent) = 1
    /\ results[1].attempts = 3

\* the segments of the run whose audio was synthesized
Synthesized == {k \in 1..Len(results) : results[k].error = NoError}

\* C17: a run in which audio was synthesized and the write of every
\* synthesized segment failed does not return: it ends by raising.
C17_WriteFailureIsFatal ==
    (Synthesized # {} /\ \A k \in Synthesized : ~results[k].written)
        => pc # "done"

\* C14: the audio of the segment at 0-based index i is in the file numbered
\* i + 1 and that number is its entry in the list, whatever happened to the
\* segments before it; a run of 5 segments of which only the 3rd fails
\* returns the files 1, 2, 4, 5, and no run raises.
C14_NamedByOriginalPosition ==
    /\ pc # "raised"
    /\ \A k \in 1..Len(results) :
          results[k].written =>
              /\ files[k] = results[k].last.data
              /\ \E n \in 1..Len(filePaths) : filePaths[n] = k
    /\ \A n \in 1..Len(filePaths) :
          /\ filePaths[n] \in 1..Len(results)
          /\ results[filePaths[n]].written
    /\ (/\ pc = "done"
        /\ Len(chunks) = 5
        /\ \A k \in 1..5 : results[k].written = (k # 3))
          => filePaths = <<1, 2, 4, 5>>

\* a finished run of 5 segments whose 3rd segment failed at the remote
C14_Witness ==
    /\ pc = "done"
    /\ Len(chunks) = 5
    /\ results[3].error # NoError
    /\ \A k \in {1, 2, 4, 5} : results[k].written
    /\ filePaths = <<1, 2, 4, 5>>

\* ------------------------------------------------------------------------
\* Properties of the run as its callers see it
\* ------------------------------------------------------------------------

\* no segment of the run so far was synthesized and written
NothingWritten == \A k \in 1..Len(results) : ~results[k].written

OutcomeClass(n, w) ==
    IF n = 0 THEN "zero"
    ELSE IF w = 0 THEN "allFailed"
    ELSE IF w < n THEN "partial"
    ELSE "full"

\* the outcome of the run that has just returned
thisClass == OutcomeClass(Len(calls), Len(Written(results)))

\* the outcome of the run before it
prevClass == OutcomeClass(prev.attempted, prev.written)

FailureKinds == {"RATE_LIMIT_EXCEEDED", "OPENAI_TIMEOUT", "API_ERROR"}

\* the error codes of the segments of the run
thisCodes == {results[k].error.errorCode : k \in 1..Len(results)}

\* C18: two requests whose runs failed entirely, each by one kind of
\* failure (rate limit, upstream timeout, generic upstream error) and not
\* both by the same kind, get responses that differ in status or code.
C18_ResponsesTellKindsApart ==
    (/\ response # NoResponse
     /\ prev.response # NoResponse
     /\ Cardinality(thisCodes) = 1
     /\ Cardinality(prev.codes) = 1
     /\ thisCodes \subseteq FailureKinds
     /\ prev.codes \subseteq FailureKinds
     /\ thisCodes # prev.codes)
        => response # prev.response

\* ------------------------------------------------------------------------
\* splitDocument on its own: one call on any text and chunk size
\* ------------------------------------------------------------------------

RECURSIVE TextsOfLength(_)
TextsOfLength(n) ==
    IF n = 0 THEN {<< >>}
    ELSE {Append(t, c) : t \in TextsOfLength(n - 1), c \in Chars}

SplitTexts == UNION {TextsOfLength(n) : n \in 0..SplitMaxLen}

\* chunkSize is any integer from -1 on: 0 and -1 are the invalid ones
SplitInputs == [text : SplitTexts, chunkSize : (-1)..SplitMaxChunk]

InitSplit == Quiet /\ splitArgs \in SplitInputs /\ NoSideCalls

\* DocumentProcessor.splitDocument(splitArgs.text, splitArgs.chunkSize)
ApplySplit ==
    /\ splitOut = NotCalled
    /\ LET out == splitDocument(splitArgs.text, splitArgs.chunkSize)
       IN  splitOut' = [called |-> TRUE, threw |-> out.threw, chunks |-> out.chunks]
    /\ UNCHANGED <<runVars, clientVars>>
    /\ UNCHANGED <<handler, response, prev, splitArgs, sideVars, reqFile>>

NextSplit == ApplySplit

SpecSplit == InitSplit /\ [][NextSplit]_vars

\* the chunks joined in order
RECURSIVE Concat(_)
Concat(cs) == IF cs = << >> THEN << >> ELSE Head(cs) \o Concat(Tail(cs))

\* the call was made with a positive chunk size and has returned
SplitReturned == splitOut.called /\ splitArgs.chunkSize > 0

\* C20 as stated: for every text T and positive L the chunks of
\* splitDocument(T, L), joined in order, are T.
C20_RoundTrip ==
    SplitReturned => Concat(splitOut.chunks) = splitArgs.text

\* C20 amended: the chunks joined in order are T when T is empty or has a
\* character that is not whitespace; for a T of whitespace only there are no
\* chunks, so that joining them gives the empty text and not T.
C20_RoundTripUnlessBlank ==
    SplitReturned =>
        /\ ~splitOut.threw
        /\ (splitArgs.text = << >> \/ trim(splitArgs.text) # << >>)
              => Concat(splitOut.chunks) = splitArgs.text
        /\ (splitArgs.text # << >> /\ trim(splitArgs.text) = << >>)
              => /\ splitOut.chunks = << >>
                 /\ Concat(splitOut.chunks) # splitArgs.text

\* a text that begins and ends with whitespace was split into several
\* chunks that join to it
C20_Witness ==
    /\ SplitReturned
    /\ Len(splitOut.chunks) >= 2
    /\ Head(splitArgs.text) = " "
    /\ splitArgs.text[Len(splitArgs.text)] = " "
    /\ Concat(splitOut.chunks) = splitArgs.text

\* the text given to splitDocument has a character that is not whitespace
SplitNonBlank == trim(splitArgs.text) # << >>

\* ceil(n / d) for d > 0
CeilDiv(n, d) == (n + d - 1) \div d

Min(a, b) == IF a < b THEN a ELSE b

\* C21: for every text T and positive L, every chunk of splitDocument(T, L)
\* is non-empty and at most L characters long.
C21_ChunksNonEmptyAndBounded ==
    SplitReturned =>
        \A k \in 1..Len(splitOut.chunks) :
            /\ splitOut.chunks[k] # << >>
            /\ Len(splitOut.chunks[k]) <= splitArgs.chunkSize

\* a first chunk of full length was followed by a shorter last chunk
C21_Witness ==
    /\ SplitReturned
    /\ Len(splitOut.chunks) >= 2
    /\ Len(splitOut.chunks[1]) = splitArgs.chunkSize
    /\ Len(splitOut.chunks[Len(splitOut.chunks)]) < splitArgs.chunkSize

\* C22 as stated: for every non-empty text T and positive L, splitDocument
\* returns ceil(len(T) / L) chunks.
C22_CountIsCeil ==
    (SplitReturned /\ splitArgs.text # << >>)
        => Len(splitOut.chunks) = CeilDiv(Len(splitArgs.text), splitArgs.chunkSize)

\* C22 amended: for every text T with a character that is not whitespace
\* and positive L, splitDocument returns ceil(len(T) / L) chunks; for a
\* non-empty T of whitespace only it returns none.
C22_CountIsCeilUnlessBlank ==
    SplitReturned =>
        /\ SplitNonBlank
              => Len(splitOut.chunks)
                     = CeilDiv(Len(splitArgs.text), splitArgs.chunkSize)
        /\ (splitArgs.text # << >> /\ ~SplitNonBlank)
              => /\ Len(splitOut.chunks) = 0
                 /\ CeilDiv(Len(splitArgs.text), splitArgs.chunkSize) > 0

\* a text whose length is a multiple of L, at least 2 L, was split into
\* len / L chunks
C22_Witness ==
    /\ SplitReturned
    /\ SplitNonBlank
    /\ Len(splitOut.chunks) >= 2
    /\ Len(splitOut.chunks) * splitArgs.chunkSize = Len(splitArgs.text)

\* the texts without a character that is not whitespace, up to MaxDocLen
BlankTexts == {Repeat(" ", n) : n \in 0..MaxDocLen}

\* C23: for every positive L splitDocument returns no chunks and no error
\* for an empty or whitespace-only text, and a run on such a document makes
\* no remote call, writes no file and returns the empty list.
C23_BlankDocumentDoesNothing ==
    /\ \A t \in BlankTexts : \A L \in 1..(ChunkSize + 1) :
           splitDocument(t, L) = [threw |-> FALSE, chunks |-> << >>]
    /\ (pc # "idle" /\ trim(document) = << >>)
          => /\ pc \in {"loop", "done"}
             /\ chunks = << >>
             /\ calls = << >>
             /\ sent = << >>
             /\ inFlight = 0
             /\ \A n \in DOMAIN files : files[n] = NoFile
             /\ filePaths = << >>

\* a run on a document of whitespace only has returned
C23_Witness ==
    /\ pc = "done"
    /\ document # << >>
    /\ trim(document) = << >>
    /\ filePaths = << >>

\* C24: for every text T, empty and whitespace-only ones included,
\* splitDocument(T, L) throws and returns no chunks when L is not a
\* positive integer.
C24_InvalidChunkSizeThrows ==
    (splitOut.called /\ splitArgs.chunkSize <= 0)
        => splitOut.threw /\ splitOut.chunks = << >>

\* C25: for a text T that is not blank and positive L, chunk k (from 0) is
\* the slice of T from k L to min((k + 1) L, len(T)), so that chunks do not
\* overlap, skip or trim anything, and all but the last have length L.
C25_ChunksAreContiguousSlices ==
    (SplitReturned /\ SplitNonBlank) =>
        LET T == splitArgs.text
            L == splitArgs.chunkSize
            n == Len(splitOut.chunks)
        IN  /\ n * L >= Len(T)
            /\ (n - 1) * L < Len(T)
            /\ \A k \in 0..(n - 1) :
                  /\ splitOut.chunks[k + 1]
                         = SubSeq(T, k * L + 1, Min((k + 1) * L, Len(T)))
                  /\ k < n - 1 => Len(splitOut.chunks[k + 1]) = L

\* a text with whitespace at its start, inside and at its end was split
\* into chunks that keep it
C25_Witness ==
    /\ SplitReturned
    /\ Len(splitArgs.text) = SplitMaxLen
    /\ splitArgs.text[1] = " "
    /\ splitArgs.text[2] = "a"
    /\ splitArgs.text[SplitMaxLen - 1] = " "
    /\ splitArgs.text[SplitMaxLen] = " "
    /\ Len(splitOut.chunks) >= 2
    /\ splitOut.chunks[1][1] = " "
    /\ Last(Last(splitOut.chunks)) = " "

\* ------------------------------------------------------------------------
\* The instructions of the payload: voiceOptions rendered into hints
\* (documentProcessor.ts:118-125)
\* ------------------------------------------------------------------------

\* the speeds of the documented range 0.5 .. 2.0, and the option left out
Speeds == {Undefined} \cup {Number(v) : v \in 1..(2 * SpeedUnit)}

Pitches == {Undefined} \cup {Number(v) : v \in (-MaxPitch)..MaxPitch}

Instructions ==
    {<< >>, <<"Speak in a neutral tone.">>, <<"Speak in a neutral tone.", " Whisper.">>}

VoiceInputs == [instructions : Instructions, speed : Speeds, pitch : Pitches]

InitVoice ==
    /\ Quiet
    /\ splitArgs = NoArgs
    /\ voiceArgs \in VoiceInputs
    /\ combineArgs = NoCombineArgs
    /\ generated = EmptyDir
    /\ NoWeb

\* the payload of generateSpeech(text, voice, voiceArgs.instructions,
\* [speed, pitch]) is built
FormatInstructions ==
    /\ ~voiceOut.called
    /\ voiceOut' = [called |-> TRUE,
                    instructions |-> formattedInstructions(voiceArgs.instructions, voiceArgs)]
    /\ UNCHANGED mainVars
    /\ UNCHANGED <<voiceArgs, combineArgs, combineOut, generated, cleanup, webVars>>

NextVoice == FormatInstructions

SpecVoice == InitVoice /\ [][NextVoice]_vars

\* what was appended to the instructions given
hintsAdded ==
    SubSeq(voiceOut.instructions,
           Len(voiceArgs.instructions) + 1, Len(voiceOut.instructions))

Added(hint) == \E k \in 1..Len(hintsAdded) : hintsAdded[k] = hint

\* C26: the instructions sent keep those given and add the faster hint
\* exactly for a speed above 1, the slower hint exactly for a speed below 1
\* and neither for a speed of 1 or none; the higher hint exactly for a pitch
\* above 0, the lower hint exactly for a pitch below 0 and neither for a
\* pitch of 0 or none.
C26_HintsFollowDirection ==
    voiceOut.called =>
        LET speed == voiceArgs.speed
            pitch == voiceArgs.pitch
        IN  /\ SubSeq(voiceOut.instructions, 1, Len(voiceArgs.instructions))
                  = voiceArgs.instructions
            /\ Added(fasterHint) = (speed.defined /\ speed.value > 1 * SpeedUnit)
            /\ Added(slowerHint) = (speed.defined /\ speed.value < 1 * SpeedUnit)
            /\ Added(higherHint) = (pitch.defined /\ pitch.value > 0)
            /\ Added(lowerHint) = (pitch.defined /\ pitch.value < 0)

\* ------------------------------------------------------------------------
\* SpeechGenerator.combineAudioFiles (speechGenerator.ts:38-53)
\* ------------------------------------------------------------------------

\* the paths of the artifacts: a path is named by its chunk number
CombinePaths == 1..MaxCombine

\* outputPath: a path that is none of the artifacts'
combinedPath == MaxCombine + 1

RECURSIVE PathLists(_)
PathLists(n) ==
    IF n = 0 THEN {<< >>}
    ELSE {Append(l, p) : l \in PathLists(n - 1), p \in CombinePaths}

CombineInputs ==
    {[filePaths |-> l, outputPath |-> combinedPath] :
        l \in UNION {PathLists(n) : n \in 0..MaxCombine}}

\* how execAsync(command) can end: ffmpeg ran and exited with 0, ffmpeg ran
\* and failed, there is no ffmpeg
ToolOutcomes == {"ok", "failed", "absent"}

InitCombine ==
    /\ Quiet
    /\ splitArgs = NoArgs
    /\ voiceArgs = NoVoiceArgs
    /\ combineArgs \in CombineInputs
    /\ generated = EmptyDir
    /\ NoWeb

\* a single path sent to the tool as well
CombineAudioFiles_noSingleTest ==
    /\ combineOut.pc = "idle"
    /\ combineOut' =
          IF Len(combineArgs.filePaths) = 0
          THEN [combineOut EXCEPT !.pc = "returned", !.value = [type |-> "null", path |-> 0]]
          ELSE [combineOut EXCEPT !.pc = "exec", !.execs = @ + 1]
    /\ UNCHANGED mainVars
    /\ UNCHANGED <<voiceArgs, voiceOut, combineArgs, generated, cleanup, webVars>>

\* combineAudioFiles(filePaths, outputPath) up to its await
CombineAudioFiles ==
    /\ combineOut.pc = "idle"
    /\ combineOut' =
          IF Len(combineArgs.filePaths) = 0
          THEN [combineOut EXCEPT !.pc = "returned", !.value = Null]
          ELSE IF Len(combineArgs.filePaths) = 1
               THEN [combineOut EXCEPT !.pc = "returned",
                                       !.value = PathValue(combineArgs.filePaths[1])]
               ELSE [combineOut EXCEPT !.pc = "exec", !.execs = @ + 1]
    /\ UNCHANGED mainVars
    /\ UNCHANGED <<voiceArgs, voiceOut, combineArgs, generated, cleanup, webVars>>

\* a failure of the tool answered with the first artifact
ExecDone_degrades(outcome, left) ==
    /\ combineOut.pc = "exec"
    /\ outcome = "ok" => left = {combineArgs.outputPath}
    /\ outcome = "absent" => left = {}
    /\ combineOut' =
          IF outcome = "ok"
          THEN [combineOut EXCEPT !.pc = "returned", !.tool = outcome, !.created = left,
                                  !.value = [type |-> "string", path |-> combineArgs.outputPath]]
          ELSE [combineOut EXCEPT !.pc = "returned", !.tool = outcome, !.created = left,
                                  !.value = [type |-> "string", path |-> combineArgs.filePaths[1]]]
    /\ UNCHANGED mainVars
    /\ UNCHANGED <<voiceArgs, voiceOut, combineArgs, generated, cleanup, webVars>>

\* await execAsync(command) is over: return outputPath, or catch and throw.
\* left is what the tool left at outputPath: the output when it succeeded,
\* nothing when it is absent, nothing or a partial file when it failed.
ExecDone(outcome, left) ==
    /\ combineOut.pc = "exec"
    /\ outcome = "ok" => left = {combineArgs.outputPath}
    /\ outcome = "absent" => left = {}
    /\ combineOut' =
          IF outcome = "ok"
          THEN [combineOut EXCEPT !.pc = "returned", !.tool = outcome, !.created = left,
                                  !.value = PathValue(combineArgs.outputPath)]
          ELSE [combineOut EXCEPT !.pc = "thrown", !.tool = outcome, !.created = left]
    /\ UNCHANGED mainVars
    /\ UNCHANGED <<voiceArgs, voiceOut, combineArgs, generated, cleanup, webVars>>

NextCombine ==
    \/ CombineAudioFiles
    \/ \E outcome \in ToolOutcomes : \E left \in SUBSET {combineArgs.outputPath} :
          ExecDone(outcome, left)

SpecCombine == InitCombine /\ [][NextCombine]_vars

\* the call is over
CombineEnded == combineOut.pc \in {"returned", "thrown"}

\* C27: given two or more paths, combineAudioFiles throws when the tool is
\* absent or fails and returns no path then; it returns outputPath only
\* when the tool has completed successfully.
C27_FailsClosed ==
    /\ (CombineEnded /\ Len(combineArgs.filePaths) >= 2)
          => /\ combineOut.execs = 1
             /\ combineOut.tool \in {"failed", "absent"}
                   => combineOut.pc = "thrown" /\ combineOut.value = Null
             /\ combineOut.tool = "ok"
                   => /\ combineOut.pc = "returned"
                      /\ combineOut.value = PathValue(combineArgs.outputPath)
    /\ (combineOut.pc = "returned"
          /\ combineOut.value = PathValue(combineArgs.outputPath))
          => combineOut.tool = "ok"

\* the call with three paths has thrown, the tool being absent
C27_Witness ==
    /\ combineOut.pc = "thrown"
    /\ Len(combineArgs.filePaths) = 3
    /\ combineOut.tool = "absent"
    /\ combineOut.value = Null

\* an array returned
ListValue(l) == [type |-> "array", paths |-> l]

\* merging was skipped: the call is over for fewer than two paths
CombineSkipped == CombineEnded /\ Len(combineArgs.filePaths) < 2

\* C28 as stated: when merging is skipped, no tool is run, no file is
\* touched, and the call returns the single path given, or the empty list
\* given.
C28_SkipReturnsInput ==
    CombineSkipped =>
        /\ combineOut.pc = "returned"
        /\ combineOut.execs = 0
        /\ combineOut.created = {}
        /\ Len(combineArgs.filePaths) = 1
              => combineOut.value = PathValue(combineArgs.filePaths[1])
        /\ Len(combineArgs.filePaths) = 0
              => combineOut.value = ListValue(combineArgs.filePaths)

\* C28 amended: when merging is skipped, no tool is run, no file is touched,
\* and the call returns the single path given, or null when no path was
\* given.
C28_SkipReturnsPathOrNull ==
    CombineSkipped =>
        /\ combineOut.pc = "returned"
        /\ combineOut.execs = 0
        /\ combineOut.tool = "none"
        /\ combineOut.created = {}
        /\ Len(combineArgs.filePaths) = 1
              => combineOut.value = PathValue(combineArgs.filePaths[1])
        /\ Len(combineArgs.filePaths) = 0
              => combineOut.value = Null

\* the call with the single path 2 has returned it
C28_Witness ==
    /\ combineOut.pc = "returned"
    /\ combineArgs.filePaths = <<2>>
    /\ combineOut.value = PathValue(2)
    /\ combineOut.execs = 0

\* ------------------------------------------------------------------------
\* POST /process-text with texts around the length limit
\* ------------------------------------------------------------------------

\* request bodies: texts of every length up to one over the limit, a text
\* of the limit's length padded with whitespace, and a body without text
TextBodies ==
    {[isString |-> TRUE, text |-> Repeat("a", n)] : n \in 0..(maxTextLength + 1)}
        \cup {[isString |-> TRUE, text |-> <<" ">> \o Repeat("a", maxTextLength) \o <<" ">>],
              [isString |-> TRUE, text |-> <<" ">> \o Repeat("a", maxTextLength + 1)],
              [isString |-> FALSE, text |-> << >>]}

\* every post succeeds or is answered 500
NextText ==
    \/ \E body \in TextBodies : ProcessText(body)
    \/ CallClient
    \/ \E d \in HttpAudio : PostSucceeds(d)
    \/ PostFails(Response(500))
    \/ BackoffElapsed
    \/ \E writeOk \in BOOLEAN : CallReturned(writeOk)
    \/ CallThrew
    \/ Return
    \/ Respond

SpecText == Init /\ [][NextText]_vars

RECURSIVE SumAttempts(_)
SumAttempts(rs) == IF rs = << >> THEN 0 ELSE Head(rs).attempts + SumAttempts(Tail(rs))

\* the posts made since the request came in
totalAttempts == SumAttempts(results) + Len(sent)

\* a text over the limit is answered 400 TEXT_TOO_LONG at once
TooLongRejected ==
    \A body \in TextBodies :
        (ProcessText(body) /\ Len(trim(body.text)) > maxTextLength)
            => /\ response' = [status |-> 400, code |-> "TEXT_TOO_LONG"]
               /\ pc' = "idle"
               /\ calls' = << >>

\* C29: POST /process-text answers 400 TEXT_TOO_LONG for a text whose
\* trimmed length is over the limit (5000, here 5 chunk sizes) and makes no
\* remote call for it; a text it accepts is split with the chunk size, so a
\* request has at most 5 segments and at most 15 posts.
C29_TextLimitBoundsWork ==
    /\ [][TooLongRejected]_vars
    /\ [](handler = "processText" =>
            /\ response.code = "TEXT_TOO_LONG"
                  => /\ response.status = 400
                     /\ pc = "idle"
                     /\ calls = << >>
                     /\ totalAttempts = 0
            /\ pc # "idle"
                  => /\ Len(document) <= maxTextLength
                     /\ chunks = splitDocument(document, ChunkSize).chunks
            /\ Len(chunks) <= 5
            /\ Len(calls) <= 5
            /\ totalAttempts <= 5 * maxRetries)

\* a text of the limit's length was answered after 5 segments of 3 posts each
C29_Witness ==
    /\ handler = "processText"
    /\ response # NoResponse
    /\ Len(document) = maxTextLength
    /\ Len(chunks) = 5
    /\ totalAttempts = 15

\* ------------------------------------------------------------------------
\* POST /cleanup and deleteOldFiles (part_001:636-663)
\* ------------------------------------------------------------------------

\* const maxAge = 24 * 60 * 60 * 1000: 24 hours in milliseconds
maxAge == 24 * 60 * 60 * 1000

\* now - stats.mtimeMs of an entry when deleteOldFiles reads the clock
Ages == {maxAge - 1, maxAge, maxAge + 1}

Present(age) == [exists |-> TRUE, age |-> age]

\* the audio files under generatedDir
AudioFiles == TopFiles \cup {SessionFile}

\* the trees that /process and /process-text can have left: a chunk of a
\* session lies in the directory of the session
Trees ==
    {t \in [Entries -> {Absent} \cup {Present(a) : a \in Ages}] :
        t[SessionFile].exists => t[SessionDir].exists}

InitCleanup ==
    /\ Quiet
    /\ splitArgs = NoArgs
    /\ voiceArgs = NoVoiceArgs
    /\ combineArgs = NoCombineArgs
    /\ generated \in Trees
    /\ NoWeb

\* POST /cleanup: deleteOldFiles(generatedDir, maxAge) reads the clock and
\* the names in generatedDir; the handler answers 200 without awaiting it
Cleanup ==
    /\ cleanup.pc = "idle"
    /\ cleanup' = [pc |-> "listed",
                   pending |-> {e \in TopFiles \cup {SessionDir} : generated[e].exists},
                   before |-> generated]
    /\ UNCHANGED mainVars
    /\ UNCHANGED <<voiceArgs, voiceOut, combineArgs, combineOut, generated, webVars>>

\* one callback of files.map: stat the entry and unlink it if it is old.
\* unlink of a directory is rejected; the catch logs the error.
StatEntry(file) ==
    /\ cleanup.pc = "listed"
    /\ file \in cleanup.pending
    /\ cleanup' = [cleanup EXCEPT !.pending = @ \ {file}]
    /\ generated' =
          IF generated[file].age > maxAge /\ file # SessionDir
          THEN [generated EXCEPT ![file] = Absent]
          ELSE generated
    /\ UNCHANGED mainVars
    /\ UNCHANGED <<voiceArgs, voiceOut, combineArgs, combineOut, webVars>>

NextCleanup ==
    \/ Cleanup
    \/ \E file \in Entries : StatEntry(file)

SpecCleanup == InitCleanup /\ [][NextCleanup]_vars

\* Promise.all has resolved
CleanupCompleted == cleanup.pc = "listed" /\ cleanup.pending = {}

\* C30: once a cleanup has completed, no audio file under generatedDir that
\* was older than 24 hours is left, the chunks in the directory of a session
\* included, and every audio file that was at most 24 hours old is still
\* there.
C30_CleanupRemovesExactlyOldFiles ==
    CleanupCompleted =>
        \A f \in AudioFiles :
            /\ (cleanup.before[f].exists /\ cleanup.before[f].age > maxAge)
                  => ~generated[f].exists
            /\ (cleanup.before[f].exists /\ cleanup.before[f].age <= maxAge)
                  => generated[f] = cleanup.before[f]

\* ------------------------------------------------------------------------
\* The middleware chain: express.static on /generated (part_001:74), the
\* session, POST /login, GET /logout, checkAuth (part_001:224-234, 375-396)
\* and behind it the handlers of /process, /process-text and /cleanup
\* ------------------------------------------------------------------------

\* const username, const password: the configured credentials
username == "admin"

password == "password"

\* the bodies of POST /login
Credentials ==
    {[username |-> "admin", password |-> "password"],
     [username |-> "admin", password |-> "wrong"],
     [username |-> "guest", password |-> "password"]}

NoCredentials == [username |-> "", password |-> ""]

\* the routes registered after app.use(checkAuth) that run the pipeline or
\* the cleanup
ProtectedRoutes == {"/process", "/process-text", "/cleanup"}

\* a file a request to /generated asks for
GeneratedFile == "chunk_1.mp3"

\* one request as the chain answered it; authed is req.session.isAuthenticated
\* when it came in; outcome is "next" when the handler of the route is called
Answered(route, sid, creds, outcome) ==
    [route |-> route, sid |-> sid, creds |-> creds,
     authed |-> session[sid], outcome |-> outcome]

\* the server takes a request: none is being handled
Listening ==
    /\ handler = "none"
    /\ cleanup.pc = "idle"
    /\ Len(requests) < MaxRequests
    /\ \A k \in {Len(requests)} \ {0} : requests[k].outcome # "next"

\* what a request leaves alone besides the sessions
RequestFrame ==
    /\ UNCHANGED mainVars
    /\ UNCHANGED <<voiceArgs, voiceOut, combineArgs, combineOut, generated, cleanup>>
    /\ UNCHANGED <<enableAuth, other>>

\* every session let through once one session has logged in
checkAuth_anySession(sid) == ~enableAuth \/ \E any \in Sids : session[any]

\* checkAuth: is next() called
checkAuth(sid) == ~enableAuth \/ session[sid]

\* POST /login
PostLogin(sid, creds) ==
    /\ Listening
    /\ IF ~enableAuth
       THEN /\ requests' = Append(requests, Answered("/login", sid, creds, "redirect:/"))
            /\ session' = session
       ELSE IF creds.username = username /\ creds.password = password
       THEN /\ requests' = Append(requests, Answered("/login", sid, creds, "redirect:/"))
            /\ session' = [session EXCEPT ![sid] = TRUE]
       ELSE /\ requests' = Append(requests,
                                  Answered("/login", sid, creds, "redirect:/login?error=true"))
            /\ session' = session
    /\ RequestFrame

\* GET /logout: req.session.destroy
GetLogout(sid) ==
    /\ Listening
    /\ requests' = Append(requests, Answered("/logout", sid, NoCredentials, "redirect:/login"))
    /\ session' = [session EXCEPT ![sid] = FALSE]
    /\ RequestFrame

\* a request to a route behind app.use(checkAuth)
Protected(route, sid) ==
    /\ Listening
    /\ requests' = Append(requests,
                          Answered(route, sid, NoCredentials,
                                   IF checkAuth(sid) THEN "next" ELSE "redirect:/login"))
    /\ session' = session
    /\ RequestFrame

\* GET /generated/<file>: express.static of line 74 comes first and sends
\* the file if there is one; without one the request goes on to checkAuth
\* and to express.static of line 435, which finds nothing either
GetGenerated(sid) ==
    /\ Listening
    /\ requests' = Append(requests,
                          Answered("/generated", sid, NoCredentials,
                                   IF generated[GeneratedFile].exists THEN "file"
                                   ELSE IF checkAuth(sid) THEN "notFound"
                                   ELSE "redirect:/login"))
    /\ session' = session
    /\ RequestFrame

\* checkAuth has called next() for the route
Routed(route) ==
    /\ requests # << >>
    /\ requests[Len(requests)].route = route
    /\ requests[Len(requests)].outcome = "next"

RouteProcess(upload) == Routed("/process") /\ Process(upload)

RouteProcessText(body) == Routed("/process-text") /\ ProcessText(body)

RouteCleanup == Routed("/cleanup") /\ Cleanup

AuthUploads ==
    {[present |-> FALSE, readable |-> FALSE, content |-> << >>],
     [present |-> TRUE, readable |-> TRUE, content |-> <<"a">>]}

AuthBodies == {[isString |-> FALSE, text |-> << >>], [isString |-> TRUE, text |-> <<"a">>]}

\* generatedDir is empty or holds an old chunk
AuthTrees == {EmptyDir, [EmptyDir EXCEPT ![GeneratedFile] = Present(maxAge + 1)]}

InitAuth ==
    /\ Quiet
    /\ splitArgs = NoArgs
    /\ voiceArgs = NoVoiceArgs
    /\ combineArgs = NoCombineArgs
    /\ generated \in AuthTrees
    /\ enableAuth \in BOOLEAN
    /\ session = NoSessions

NextAuth ==
    \/ \E sid \in Sids : \E creds \in Credentials : PostLogin(sid, creds)
    \/ \E sid \in Sids : GetLogout(sid)
    \/ \E sid \in Sids : \E route \in ProtectedRoutes : Protected(route, sid)
    \/ \E sid \in Sids : GetGenerated(sid)
    \/ \E upload \in AuthUploads : RouteProcess(upload)
    \/ \E body \in AuthBodies : RouteProcessText(body)
    \/ RouteCleanup
    \/ \E file \in Entries : StatEntry(file)
    \/ CallClient
    \/ \E d \in HttpAudio : PostSucceeds(d)
    \/ PostFails(Response(429))
    \/ CallReturned(TRUE)
    \/ CallThrew
    \/ Return
    \/ Respond

SpecAuth == InitAuth /\ [][NextAuth]_vars

\* before request k, sid has logged in with the configured credentials and
\* has not logged out since
LoggedIn(sid, k) ==
    \E j \in 1..(k - 1) :
        /\ requests[j].route = "/login"
        /\ requests[j].sid = sid
        /\ requests[j].creds = [username |-> username, password |-> password]
        /\ \A l \in (j + 1)..(k - 1) :
              ~(requests[l].route = "/logout" /\ requests[l].sid = sid)

\* the handler of a protected route is running or has run
HandlerEntered == handler # "none" \/ cleanup.pc # "idle"

C36_GeneratedOnlyForLoggedIn ==
    \A k \in 1..Len(requests) :
        (/\ requests[k].route = "/generated"
         /\ enableAuth
         /\ ~requests[k].authed)
            => requests[k].outcome # "file"

\* ------------------------------------------------------------------------
\* What a run writes
\* ------------------------------------------------------------------------

\* a step of the run that changes outputDir ends a call that returned audio
\* and writes that audio to the file of the chunk, whose path it pushes
WritesOnlyAfterSuccess ==
    files' # files =>
        /\ pc = "await"
        /\ cpc = "returned"
        /\ outcomes[Len(outcomes)].kind = "ok"
        /\ files' = [files EXCEPT ![i + 1] = ret]
        /\ filePaths' = Append(filePaths, i + 1)

\* the step that ends a call that threw changes neither outputDir nor the
\* list
FailureWritesNothing ==
    (pc = "await" /\ cpc = "thrown" /\ pc' = "loop") =>
        /\ files' = files
        /\ filePaths' = filePaths
        /\ Len(results') = Len(results) + 1

\* C32: the run writes a file only when the synthesis of a segment has
\* succeeded; for a segment whose synthesis failed it writes nothing, leaves
\* a file of that name as it was and does not list its path; it has written
\* as many files as its list is long.
C32_WritesOnlyForSuccess ==
    /\ [][WritesOnlyAfterSuccess]_vars
    /\ [][FailureWritesNothing]_vars
    /\ [](\A k \in 1..Len(results) :
             results[k].error # NoError
                 => /\ ~results[k].written
                    /\ \A m \in 1..Len(filePaths) : filePaths[m] # results[k].index + 1)
    /\ [](Len(filePaths) = Len(Written(results)))

\* the run has returned after the synthesis of its first segment failed,
\* and the chunk_1.mp3 that the request before had written is still there
C32_Witness ==
    /\ pc = "done"
    /\ prev.written > 0
    /\ results # << >>
    /\ results[1].error # NoError
    /\ files[1] # NoFile
    /\ \A m \in 1..Len(filePaths) : filePaths[m] # 1

\* ------------------------------------------------------------------------
\* The retry state of a call
\* ------------------------------------------------------------------------

\* C33: every call of generateSpeech starts with its own attempt counter and
\* backoff: while it runs, attempt counts the failed posts of this call only
\* and the waits are those of this call; every segment is posted at least
\* once and at most 3 times whatever the segments before it used, and a run
\* over n segments posts at most 3 n times.
C33_RetryStatePerSegment ==
    /\ cpc = "post"
          => /\ attempt = Len(outcomes)
             /\ Len(sent) = attempt + 1
             /\ attempt < maxRetries
    /\ cpc = "backoff"
          => /\ attempt = Len(outcomes)
             /\ Len(sent) = attempt
             /\ Len(waits) = attempt
    /\ \A k \in 1..Len(waits) : waits[k] = backoffDelay(k)
    /\ \A k \in 1..Len(results) :
          /\ results[k].attempts >= 1
          /\ results[k].attempts <= 3
    /\ totalAttempts <= 3 * Len(chunks)
    /\ totalAttempts <= 3 * Len(calls)

\* the second segment was posted 3 times after the first had been posted 3
\* times
C33_Witness ==
    /\ Len(results) = 2
    /\ results[1].attempts = 3
    /\ results[2].attempts = 3
    /\ totalAttempts = 3 * Len(chunks)

\* ------------------------------------------------------------------------
\* Two runs of generateSpeechFromDocument on one outputDir: two /process
\* requests both run on generatedDir (part_001:490), two /process-text
\* requests of one session on generatedDir/<sessionId> (part_001:583-588).
\* The second run is followed through its loop only; each of its chunks is
\* synthesized and written, or skipped, in one step.
\* ------------------------------------------------------------------------

\* the audio the remote returns to the second run
OtherAudio == "audioOther"

\* what the second run leaves alone
OtherFrame ==
    /\ UNCHANGED <<pc, document, chunks, i, filePaths, calls, results>>
    /\ UNCHANGED clientVars
    /\ UNCHANGED <<handler, response, prev, splitArgs, splitOut, reqFile>>
    /\ UNCHANGED <<voiceArgs, voiceOut, combineArgs, combineOut, generated, cleanup>>
    /\ UNCHANGED <<enableAuth, session, requests>>

\* the second run begins on a document of n chunks
OtherInvoke(n) ==
    /\ other.pc = "idle"
    /\ other' = [pc |-> "loop", n |-> n, i |-> 0, filePaths |-> << >>]
    /\ UNCHANGED files
    /\ OtherFrame

\* its generateSpeech returned: writeFileSync(chunk_<i+1>.mp3), push
OtherWrites ==
    /\ other.pc = "loop"
    /\ other.i < other.n
    /\ files' = [files EXCEPT ![outputPath(other.i)] = OtherAudio]
    /\ other' = [other EXCEPT !.i = @ + 1,
                              !.filePaths = Append(@, outputPath(other.i))]
    /\ OtherFrame

\* its generateSpeech threw: continue
OtherSkips ==
    /\ other.pc = "loop"
    /\ other.i < other.n
    /\ other' = [other EXCEPT !.i = @ + 1]
    /\ UNCHANGED files
    /\ OtherFrame

\* it returns its filePaths
OtherReturn ==
    /\ other.pc = "loop"
    /\ other.i = other.n
    /\ other' = [other EXCEPT !.pc = "done"]
    /\ UNCHANGED files
    /\ OtherFrame

NextRace ==
    \/ \E doc \in HttpDocuments : GenerateSpeechFromDocument(doc)
    \/ CallClient
    \/ \E d \in HttpAudio : PostSucceeds(d)
    \/ PostFails(Response(429))
    \/ \E writeOk \in BOOLEAN : CallReturned(writeOk)
    \/ CallThrew
    \/ Return
    \/ \E n \in 1..MaxSegments : OtherInvoke(n)
    \/ OtherWrites
    \/ OtherSkips
    \/ OtherReturn

SpecRace == Init /\ [][NextRace]_vars

\* C34: when a run returns while another run works on the same outputDir,
\* every path of its list names a file that holds the audio this run
\* synthesized for that segment.
C34_ReturnedPathsHoldOwnAudio ==
    pc = "done" =>
        \A k \in 1..Len(results) :
            results[k].written
                => files[results[k].index + 1] = results[k].last.data

\* ------------------------------------------------------------------------
\* Termination.  Every post is resolved or rejected in the end, every timer
\* fires, and the event loop runs every continuation that is ready.
\* ------------------------------------------------------------------------

NextLive ==
    \/ \E doc \in HttpDocuments : GenerateSpeechFromDocument(doc)
    \/ CallClient
    \/ \E d \in HttpAudio : PostSucceeds(d)
    \/ \E e \in Failures : PostFails(e)
    \/ BackoffElapsed
    \/ \E writeOk \in BOOLEAN : CallReturned(writeOk)
    \/ CallThrew
    \/ Return

\* axios.post settles
PostSettles ==
    \/ \E d \in HttpAudio : PostSucceeds(d)
    \/ \E e \in Failures : PostFails(e)

\* the continuations of the run
RunContinues ==
    \/ CallClient
    \/ \E writeOk \in BOOLEAN : CallReturned(writeOk)
    \/ CallThrew
    \/ Return

SpecLive ==
    /\ Init
    /\ [][NextLive]_vars
    /\ WF_vars(PostSettles)
    /\ WF_vars(BackoffElapsed)
    /\ WF_vars(RunContinues)

\* the error codes generateSpeech gives to the failures it tells apart
ClassifiedCodes ==
    {"OPENAI_TIMEOUT", "RATE_LIMIT_EXCEEDED", "API_ERROR",
     "REQUEST_TIMEOUT", "NO_RESPONSE", "REQUEST_SETUP_ERROR"}

\* C35: when every post settles, a call of generateSpeech that has posted
\* ends, with the audio returned or with one of the classified errors
\* thrown; the error thrown after the loop, UNEXPECTED_ERROR, is never
\* thrown; and a run that has begun returns.
C35_CallsAndRunsTerminate ==
    /\ (cpc \in {"post", "backoff"}) ~> (cpc \in {"returned", "thrown"})
    /\ [](cpc = "returned" => ret \in AudioData)
    /\ [](cpc = "thrown" => error.errorCode \in ClassifiedCodes)
    /\ [](\A k \in 1..Len(results) : results[k].error.errorCode # "UNEXPECTED_ERROR")
    /\ (pc \in {"loop", "await"}) ~> (pc = "done")
    /\ [](pc # "raised")

\* a run of two segments has returned after its first call had three setup
\* failures and its second three network failures
C35_Witness ==
    /\ pc = "done"
    /\ Len(results) = 2
    /\ results[1].attempts = 3
    /\ results[1].error.errorCode = "REQUEST_SETUP_ERROR"
    /\ results[2].attempts = 3
    /\ results[2].error.errorCode = "NO_RESPONSE"

\* C37: when POST /process has answered a request that came with a file,
\* the file is no longer in the upload directory, whatever the answer.
C37_UploadRemovedByResponse ==
    (handler = "process" /\ response # NoResponse /\ reqFile # "none")
        => reqFile = "removed"

\* ------------------------------------------------------------------------
\* One call of generateSpeech with voiceOptions
\* ------------------------------------------------------------------------

InitRetry ==
    /\ Quiet
    /\ splitArgs = NoArgs
    /\ voiceArgs \in VoiceInputs
    /\ combineArgs = NoCombineArgs
    /\ generated = EmptyDir
    /\ NoWeb

\* generateSpeech(input, "alloy", voiceArgs.instructions, [speed, pitch])
\* called on its own, up to its first post
GenerateSpeech(input) ==
    /\ pc = "idle"
    /\ cpc = "idle"
    /\ sent = << >>
    /\ text' = input
    /\ attempt' = 0
    /\ outcomes' = << >>
    /\ waits' = << >>
    /\ ret' = NoData
    /\ LET w == whileTest(0, << >>, input)
       IN  /\ cpc' = w.cpc
           /\ sent' = w.sent
           /\ error' = w.error
           /\ inFlight' = IF w.cpc = "post" THEN inFlight + 1 ELSE inFlight
    /\ UNCHANGED runVars
    /\ UNCHANGED outerVars

\* the failures after which the call posts again
RetryFailures == {Response(500), NoAnswer("ECONNRESET")}

NextRetry ==
    \/ GenerateSpeech(<<"a">>)
    \/ \E d \in HttpAudio : PostSucceeds(d)
    \/ \E e \in RetryFailures : PostFails(e)
    \/ BackoffElapsed

SpecRetry == InitRetry /\ [][NextRetry]_vars

\* C38: every post of a call sends the same payload: the model, the text
\* and the voice of the call, and the caller's instructions followed by the
\* hints of the options, each hint once.
C38_SamePayloadEveryAttempt ==
    \A k \in 1..Len(sent) :
        /\ sent[k] = sent[1]
        /\ sent[k].model = "gpt-4o-mini-tts"
        /\ sent[k].input = text
        /\ sent[k].voice = "alloy"
        /\ sent[k].instructions
               = formattedInstructions(voiceArgs.instructions, voiceArgs)
        /\ Len(sent[k].instructions) <= Len(voiceArgs.instructions) + 2

\* a call with a speed and a pitch has posted for the third time
C38_Witness ==
    /\ Len(sent) = 3
    /\ truthy(voiceArgs.speed)
    /\ truthy(voiceArgs.pitch)
    /\ Len(sent[3].instructions) = Len(voiceArgs.instructions) + 2
    /\ cpc = "post"

====
